---- MODULE Spec2Model ----
(***************************************************************************)
(* Streams of tendrils (src/src/stream.rs): the push interface TendrilSink *)
(* and its two decoding adaptors, Utf8LossyDecoder and LossyDecoder.       *)
(*                                                                         *)
(* A byte is an integer 0..255.  A byte tendril is a sequence of bytes.  A *)
(* text tendril (fmt::UTF8) is the sequence of the bytes of its UTF-8      *)
(* encoding, as in Rust.  The sink is the test's Accumulate, extended to   *)
(* keep the order of the calls: one record per call it received.          *)
(***************************************************************************)
EXTENDS Integers, Sequences, FiniteSets, TLC

(* ------------------------------ bounds -------------------------------- *)

\* Total number of input bytes fed to one decoder by a caller that only feeds
\* chunks and finishes.
MaxBytes == 4
\* Total number of input bytes fed to one decoder by a caller that also calls
\* error(desc).
MaxBytesMixed == 3
\* Number of error(desc) calls a caller makes on one decoder.
MaxErrorCalls == 1

\* The bytes a caller draws chunks from on the UTF-8 path: 'x', a three-byte
\* lead (EF), a four-byte lead (F0), two continuation bytes (BD, BF) and a
\* byte that is never valid (FF).  EF BF BD encodes U+FFFD.
Utf8Bytes == {120, 239, 240, 189, 191, 255}
\* The bytes a caller draws chunks from on the legacy path: '(' and 'x'
\* (ASCII), BE and C8 (lead or trail bytes of windows-949) and FF (invalid).
LegacyBytes == {40, 120, 190, 200, 255}
\* The descriptions a caller passes to error(desc).
CallerMessages == {"caller error"}
\* The bytes a caller draws chunks from for the gb18030 engine: '(' and '0'
\* (ASCII; '0' is also the second and the fourth byte of a four-byte
\* sequence), 81 (a first or third byte, or a trail byte) and FF (invalid).
GB18030Bytes == {40, 48, 129, 255}

\* The encodings a LossyDecoder is constructed with.
Encodings == {"utf-8", "ascii", "windows-949"}

(* ----------------------------- sequences ------------------------------ *)

\* &s[from..] with a 0-based offset.
DropFront(s, n) == SubSeq(s, n + 1, Len(s))
\* &s[..n].
TakeFront(s, n) == SubSeq(s, 1, n)

(* ------------------------- the sink's records ------------------------- *)

\* "\u{fffd}" as UTF-8 text.
REPLACEMENT_CHARACTER == <<239, 191, 189>>

\* sink.process(t).  `from` names the expression that built t.
SinkProcess(text, from) ==
    [op |-> "process", text |-> text, msg |-> "", from |-> from]
\* sink.error(desc).  `from` is "decoder" for a notice the decoder raises and
\* "caller" for one passed through from the decoder's own error(desc).
SinkError(msg, from) ==
    [op |-> "error", text |-> <<>>, msg |-> msg, from |-> from]
\* sink.finish().
SinkFinish == [op |-> "finish", text |-> <<>>, msg |-> "", from |-> "decoder"]

(* -------------------- the incremental UTF-8 scanner ------------------- *)

IsContinuationByte(b) == b >= 128 /\ b <= 191

\* The length of the sequence a first byte announces; 0: never a first byte.
Utf8CharWidth(b) ==
    IF b < 128 THEN 1
    ELSE IF b >= 194 /\ b <= 223 THEN 2
    ELSE IF b >= 224 /\ b <= 239 THEN 3
    ELSE IF b >= 240 /\ b <= 244 THEN 4
    ELSE 0

\* Whether byte b may follow the non-empty prefix p of a multi-byte sequence.
ValidNext(p, b) ==
    IF Len(p) = 1
    THEN CASE p[1] = 224 -> b >= 160 /\ b <= 191
           [] p[1] = 237 -> b >= 128 /\ b <= 159
           [] p[1] = 240 -> b >= 144 /\ b <= 191
           [] p[1] = 244 -> b >= 128 /\ b <= 143
           [] OTHER -> IsContinuationByte(b)
    ELSE IsContinuationByte(b)

\* The number of bytes of input, from 0-based position pos, that form a valid
\* prefix of one sequence of width w, n of them already matched.
RECURSIVE MatchLen(_, _, _, _)
MatchLen(input, pos, w, n) ==
    IF n = w \/ pos + n >= Len(input) THEN n
    ELSE IF ~ValidNext(SubSeq(input, pos + 1, pos + n), input[pos + n + 1]) THEN n
    ELSE MatchLen(input, pos, w, n + 1)

\* What the scan of Decoder::decode does at 0-based position pos, given the
\* width w the byte there announces and the number n of bytes there that
\* form a valid prefix of a sequence.
RECURSIVE Scan(_, _, _, _)
ScanAt(input, ch, begin, pos, w, n) ==
    IF w = 0
    THEN [ch |-> ch, begin |-> begin, end |-> pos, status |-> "Error",
          remaining |-> pos + 1, inc |-> <<>>]
    ELSE IF n = w
    THEN Scan(input, ch, begin, pos + w)
    ELSE IF pos + n >= Len(input)
    THEN [ch |-> ch, begin |-> begin, end |-> pos, status |-> "Incomplete",
          remaining |-> Len(input), inc |-> DropFront(input, pos)]
    ELSE [ch |-> ch, begin |-> begin, end |-> pos, status |-> "Error",
          remaining |-> pos + n, inc |-> <<>>]

\* The scan of Decoder::decode from 0-based position pos of input, the valid
\* run starting at 0-based position begin and ch completed from the
\* carry-over.  Returns (ch, s, result): s by its place [begin, end) in
\* input, the status, the position the remaining input starts at after an
\* error, and the decoder's new carry-over.
Scan(input, ch, begin, pos) ==
    IF pos >= Len(input)
    THEN [ch |-> ch, begin |-> begin, end |-> pos, status |-> "Ok",
          remaining |-> pos, inc |-> <<>>]
    ELSE ScanAt(input, ch, begin, pos, Utf8CharWidth(input[pos + 1]),
                MatchLen(input, pos, Utf8CharWidth(input[pos + 1]), 1))

\* IncompleteSequence::complete, and the scan that follows it when the
\* carried-over sequence is completed: finish the carry-over `inc` with the
\* first bytes of input, pos of them taken so far.
RECURSIVE Complete(_, _, _)
Complete(inc, input, pos) ==
    IF inc = <<>>
    THEN Scan(input, <<>>, pos, pos)
    ELSE IF Len(inc) = Utf8CharWidth(inc[1])
    THEN Scan(input, inc, pos, pos)
    ELSE IF pos >= Len(input)
    THEN [ch |-> <<>>, begin |-> 0, end |-> 0, status |-> "Incomplete",
          remaining |-> pos, inc |-> inc]
    ELSE IF ~ValidNext(inc, input[pos + 1])
    THEN [ch |-> <<>>, begin |-> 0, end |-> 0, status |-> "Error",
          remaining |-> pos, inc |-> <<>>]
    ELSE Complete(Append(inc, input[pos + 1]), input, pos + 1)

\* utf8::Decoder::decode(input): (ch, s, result) and the decoder's new
\* carry-over.
Decode(inc, input) == Complete(inc, input, 0)

\* utf8::Decoder::has_incomplete_sequence.
HasIncompleteSequence(inc) == Len(inc) > 0

(* -------------------------- Utf8LossyDecoder -------------------------- *)

\* Whether t.subtendril(offset, len) is in bounds (it panics otherwise).
SubtendrilInBounds(t, offset, len) ==
    offset >= 0 /\ len >= 0 /\ offset + len <= Len(t)

\* t.subtendril(offset, len), reinterpreted as text without validation.
Subtendril(t, offset, len) == SubSeq(t, offset + 1, offset + len)

RECURSIVE Utf8ProcessLoop(_, _, _, _)

\* Utf8ProcessIteration with the push of the completed character left out.
Utf8ProcessIteration_DropCh(d, t, start, calls) ==
    LET offset == start + d.begin
        c2 == IF d.end > d.begin
              THEN Append(calls, SinkProcess(Subtendril(t, offset, d.end - d.begin),
                                             "subtendril"))
              ELSE calls
    IN  IF d.status \in {"Ok", "Incomplete"}
        THEN [inc |-> d.inc, calls |-> c2, panic |-> FALSE]
        ELSE Utf8ProcessLoop(d.inc, t, start + d.remaining,
                 c2 \o <<SinkError("invalid byte sequence", "decoder"),
                         SinkProcess(REPLACEMENT_CHARACTER, "replacement")>>)

\* Utf8ProcessIteration with the replacement character pushed before the
\* error notice instead of after it.
Utf8ProcessIteration_ReplacementFirst(d, t, start, calls) ==
    LET c1 == IF d.ch # <<>>
              THEN Append(calls, SinkProcess(d.ch, "from_slice"))
              ELSE calls
        offset == start + d.begin
        c2 == IF d.end > d.begin
              THEN Append(c1, SinkProcess(Subtendril(t, offset, d.end - d.begin),
                                          "subtendril"))
              ELSE c1
    IN  IF d.status \in {"Ok", "Incomplete"}
        THEN [inc |-> d.inc, calls |-> c2, panic |-> FALSE]
        ELSE Utf8ProcessLoop(d.inc, t, start + d.remaining,
                 c2 \o <<SinkProcess(REPLACEMENT_CHARACTER, "replacement"),
                         SinkError("invalid byte sequence", "decoder")>>)

\* Utf8ProcessIteration with an error that directly follows another error of
\* the same call merged into it: no second notice, no second replacement.
Utf8ProcessIteration_MergeErrors(d, t, start, calls) ==
    LET c1 == IF d.ch # <<>>
              THEN Append(calls, SinkProcess(d.ch, "from_slice"))
              ELSE calls
        offset == start + d.begin
        c2 == IF d.end > d.begin
              THEN Append(c1, SinkProcess(Subtendril(t, offset, d.end - d.begin),
                                          "subtendril"))
              ELSE c1
        merged == c2 = calls /\ calls # <<>>
                  /\ calls[Len(calls)].from = "replacement"
    IN  IF d.status \in {"Ok", "Incomplete"}
        THEN [inc |-> d.inc, calls |-> c2, panic |-> FALSE]
        ELSE Utf8ProcessLoop(d.inc, t, start + d.remaining,
                 IF merged THEN c2
                 ELSE c2 \o <<SinkError("invalid byte sequence", "decoder"),
                              SinkProcess(REPLACEMENT_CHARACTER, "replacement")>>)

\* Utf8ProcessIteration without the test that the valid run is non-empty
\* before it is pushed.
Utf8ProcessIteration_PushEmpty(d, t, start, calls) ==
    LET c1 == IF d.ch # <<>>
              THEN Append(calls, SinkProcess(d.ch, "from_slice"))
              ELSE calls
        offset == start + d.begin
        c2 == Append(c1, SinkProcess(Subtendril(t, offset, d.end - d.begin),
                                     "subtendril"))
    IN  IF d.status \in {"Ok", "Incomplete"}
        THEN [inc |-> d.inc, calls |-> c2, panic |-> FALSE]
        ELSE Utf8ProcessLoop(d.inc, t, start + d.remaining,
                 c2 \o <<SinkError("invalid byte sequence", "decoder"),
                         SinkProcess(REPLACEMENT_CHARACTER, "replacement")>>)

\* Utf8ProcessIteration with the completed character and the valid run that
\* follows it copied into one constructed chunk.
Utf8ProcessIteration_OneCopiedChunk(d, t, start, calls) ==
    LET offset == start + d.begin
        text == d.ch \o Subtendril(t, offset, d.end - d.begin)
        c2 == IF text # <<>>
              THEN Append(calls, SinkProcess(text, "from_slice"))
              ELSE calls
    IN  IF d.status \in {"Ok", "Incomplete"}
        THEN [inc |-> d.inc, calls |-> c2, panic |-> FALSE]
        ELSE Utf8ProcessLoop(d.inc, t, start + d.remaining,
                 c2 \o <<SinkError("invalid byte sequence", "decoder"),
                         SinkProcess(REPLACEMENT_CHARACTER, "replacement")>>)

\* Utf8ProcessIteration with the error notice sent before the valid run that
\* precedes the error is pushed.
Utf8ProcessIteration_NoticeFirst(d, t, start, calls) ==
    LET c1 == IF d.ch # <<>>
              THEN Append(calls, SinkProcess(d.ch, "from_slice"))
              ELSE calls
        offset == start + d.begin
        run == IF d.end > d.begin
               THEN <<SinkProcess(Subtendril(t, offset, d.end - d.begin),
                                  "subtendril")>>
               ELSE <<>>
    IN  IF d.status \in {"Ok", "Incomplete"}
        THEN [inc |-> d.inc, calls |-> c1 \o run, panic |-> FALSE]
        ELSE Utf8ProcessLoop(d.inc, t, start + d.remaining,
                 ((c1 \o <<SinkError("invalid byte sequence", "decoder")>>)
                  \o run)
                 \o <<SinkProcess(REPLACEMENT_CHARACTER, "replacement")>>)

\* One call of decoder.decode in a process call: the offset in t at which
\* its input starts, the character ch it completed, the offset and the
\* length of the valid run s it returned, the status, and the carry-over it
\* left in the decoder.
Decoded(d, start) ==
    [start |-> start, ch |-> d.ch, offset |-> start + d.begin,
     len |-> d.end - d.begin, status |-> d.status, inc |-> d.inc]

\* The result of the rest of a process call, with the call of decode that
\* came before it put in front of the calls it records.
AfterDecoded(scan, rest) == [rest EXCEPT !.scans = <<scan>> \o rest.scans]

\* Utf8ProcessIteration with the offset of the valid run taken from the
\* start of the input of this iteration instead of the start of t.
Utf8ProcessIteration_OffsetInInput(d, t, start, calls) ==
    LET c1 == IF d.ch # <<>>
              THEN Append(calls, SinkProcess(d.ch, "from_slice"))
              ELSE calls
        offset == d.begin
        c2 == IF d.end > d.begin
              THEN Append(c1, SinkProcess(Subtendril(t, offset, d.end - d.begin),
                                          "subtendril"))
              ELSE c1
        scan == [start |-> start, ch |-> d.ch, offset |-> offset,
                 len |-> d.end - d.begin, status |-> d.status, inc |-> d.inc]
    IN  IF d.status \in {"Ok", "Incomplete"}
        THEN [inc |-> d.inc, calls |-> c2, panic |-> FALSE, scans |-> <<scan>>]
        ELSE [Utf8ProcessLoop(d.inc, t, start + d.remaining,
                  c2 \o <<SinkError("invalid byte sequence", "decoder"),
                          SinkProcess(REPLACEMENT_CHARACTER, "replacement")>>)
              EXCEPT !.scans = <<scan>> \o @]

\* One iteration of the loop of Utf8LossyDecoder::process, d being what
\* decoder.decode(input) returned: input is &t[start..], calls are the sink
\* calls made so far in this call.  `scans` records the calls of decode made.
Utf8ProcessIteration(d, t, start, calls) ==
    LET c1 == IF d.ch # <<>>
              THEN Append(calls, SinkProcess(d.ch, "from_slice"))
              ELSE calls
        offset == start + d.begin
        c2 == IF d.end > d.begin
              THEN Append(c1, SinkProcess(Subtendril(t, offset, d.end - d.begin),
                                          "subtendril"))
              ELSE c1
    IN  IF d.end > d.begin /\ ~SubtendrilInBounds(t, offset, d.end - d.begin)
        THEN [inc |-> d.inc, calls |-> c1, panic |-> TRUE,
              scans |-> <<Decoded(d, start)>>]
        ELSE IF d.status \in {"Ok", "Incomplete"}
        THEN [inc |-> d.inc, calls |-> c2, panic |-> FALSE,
              scans |-> <<Decoded(d, start)>>]
        ELSE AfterDecoded(Decoded(d, start),
                 Utf8ProcessLoop(d.inc, t, start + d.remaining,
                     c2 \o <<SinkError("invalid byte sequence", "decoder"),
                             SinkProcess(REPLACEMENT_CHARACTER,
                                         "replacement")>>))

\* The loop of Utf8LossyDecoder::process.
Utf8ProcessLoop(inc, t, start, calls) ==
    Utf8ProcessIteration(Decode(inc, DropFront(t, start)), t, start, calls)

\* Utf8Process with a new utf8::Decoder made for every call, so that no
\* bytes are carried over from the chunk before.
Utf8Process_NewDecoder(inc, t) == Utf8ProcessLoop(<<>>, t, 0, <<>>)

\* Utf8Process with decode called on a copy of the decoder, so that the
\* decoder keeps the carry-over it had.
Utf8Process_DecoderCopied(inc, t) ==
    [Utf8ProcessLoop(inc, t, 0, <<>>) EXCEPT !.inc = inc]

\* Utf8LossyDecoder::process(t).
Utf8Process(inc, t) == Utf8ProcessLoop(inc, t, 0, <<>>)

\* Utf8Error with the caller's error treated like a decoding error: a
\* replacement character is pushed after the notice.
Utf8Error_WithReplacement(desc) ==
    <<SinkError(desc, "caller"),
      SinkProcess(REPLACEMENT_CHARACTER, "replacement")>>

\* Utf8LossyDecoder::error(desc).
Utf8Error(desc) == <<SinkError(desc, "caller")>>

\* Utf8Finish with one notice and one replacement character for every byte
\* of the incomplete sequence.
RECURSIVE Utf8Finish_PerByte(_)
Utf8Finish_PerByte(inc) ==
    IF inc = <<>> THEN <<SinkFinish>>
    ELSE <<SinkError("incomplete byte sequence at end of stream", "decoder"),
           SinkProcess(REPLACEMENT_CHARACTER, "replacement")>>
         \o Utf8Finish_PerByte(Tail(inc))

\* Utf8LossyDecoder::finish().
Utf8Finish(inc) ==
    (IF HasIncompleteSequence(inc)
     THEN <<SinkError("incomplete byte sequence at end of stream", "decoder"),
            SinkProcess(REPLACEMENT_CHARACTER, "replacement")>>
     ELSE <<>>) \o <<SinkFinish>>

(* ---------------------- the raw decoding engines ---------------------- *)

\* A char written to a StringWriter: its UTF-8 encoding.
Utf8Encode(cp) ==
    IF cp < 128 THEN <<cp>>
    ELSE IF cp < 2048 THEN <<192 + (cp \div 64), 128 + (cp % 64)>>
    ELSE IF cp < 65536
    THEN <<224 + (cp \div 4096), 128 + ((cp \div 64) % 64), 128 + (cp % 64)>>
    ELSE <<240 + (cp \div 262144), 128 + ((cp \div 4096) % 64),
           128 + ((cp \div 64) % 64), 128 + (cp % 64)>>

\* What map_two_bytes returns for a pair the index does not map.
Unmapped == 65535

\* windows949::map_two_bytes(lead, trail): the code point of the pair, or
\* Unmapped.  The index table is stood in for by the Hangul syllables taken
\* in pointer order.
MapTwoBytes(lead, trail) ==
    IF lead >= 129 /\ lead <= 254 /\ trail >= 65 /\ trail <= 254
       /\ ~(trail >= 91 /\ trail <= 96) /\ ~(trail >= 123 /\ trail <= 128)
    THEN 44032 + (((lead - 129) * 190 + (trail - 65)) % 11172)
    ELSE Unmapped

\* ASCIIDecoder::raw_feed(input, output): what it wrote and the error, if any.
AsciiRawFeed(input) ==
    LET bad == {i \in 1..Len(input) : input[i] >= 128}
    IN  IF bad = {}
        THEN [st |-> 0, out |-> input, err |-> FALSE, upto |-> 0, cause |-> ""]
        ELSE LET first_error == (CHOOSE i \in bad : \A j \in bad : i <= j) - 1
             IN  [st |-> 0, out |-> TakeFront(input, first_error), err |-> TRUE,
                  upto |-> first_error + 1, cause |-> "invalid sequence"]

\* Windows949Decoder::raw_feed from 0-based position pos.  st is 0 in state
\* S0 and the lead byte in state S1(lead).
RECURSIVE Windows949RawFeed(_, _, _, _)
Windows949RawFeed(st, input, pos, out) ==
    IF pos >= Len(input)
    THEN [st |-> st, out |-> out, err |-> FALSE, upto |-> 0, cause |-> ""]
    ELSE LET b == input[pos + 1]
         IN  IF st = 0
             THEN IF b <= 127
                  THEN Windows949RawFeed(0, input, pos + 1, Append(out, b))
                  ELSE IF b >= 129 /\ b <= 254
                  THEN Windows949RawFeed(b, input, pos + 1, out)
                  ELSE [st |-> 0, out |-> out, err |-> TRUE, upto |-> pos + 1,
                        cause |-> "invalid sequence"]
             ELSE IF MapTwoBytes(st, b) = Unmapped
                  THEN [st |-> 0, out |-> out, err |-> TRUE,
                        upto |-> (pos + 1) - (IF b < 128 THEN 1 ELSE 0),
                        cause |-> "invalid sequence"]
                  ELSE Windows949RawFeed(0, input, pos + 1,
                                         out \o Utf8Encode(MapTwoBytes(st, b)))

\* gb18030::map_two_bytes(lead, trail): the code point of the pair, or
\* Unmapped.  The index table is stood in for by the CJK ideographs taken in
\* pointer order.
GB18030MapTwoBytes(lead, trail) ==
    IF lead >= 129 /\ lead <= 254
       /\ ((trail >= 64 /\ trail <= 126) \/ (trail >= 128 /\ trail <= 254))
    THEN 19968 + (((lead - 129) * 190
                   + (trail - (IF trail < 127 THEN 64 ELSE 65))) % 20902)
    ELSE Unmapped

\* gb18030::map_four_bytes(b1, b2, b3, b4): the code point of the pointer, or
\* Unmapped.  The ranges table is stood in for by its first range, which
\* starts at U+0080.
GB18030MapFourBytes(b1, b2, b3, b4) ==
    LET pointer == (((b1 - 129) * 10 + (b2 - 48)) * 126 + (b3 - 129)) * 10
                   + (b4 - 48)
    IN  IF pointer < 36 THEN 128 + pointer ELSE Unmapped

\* GB18030Decoder::raw_feed from 0-based position pos.  st is 0 in state S0
\* and packs the bytes held in states S1(first), S2(first, second) and
\* S3(first, second, third) as first + 256 * second + 65536 * third.  An
\* error backs up over the bytes of the broken sequence that are to be
\* decoded again, so upto, relative to this input, is negative when such a
\* byte arrived in an earlier input.
RECURSIVE GB18030RawFeed(_, _, _, _)
GB18030Err(pos, backup, out) ==
    [st |-> 0, out |-> out, err |-> TRUE, upto |-> (pos + 1) - backup,
     cause |-> "invalid sequence"]
GB18030Byte(st, b, input, pos, out) ==
    IF st = 0
    THEN IF b <= 127 THEN GB18030RawFeed(0, input, pos + 1, Append(out, b))
         ELSE IF b = 128
         THEN GB18030RawFeed(0, input, pos + 1, out \o Utf8Encode(8364))
         ELSE IF b <= 254 THEN GB18030RawFeed(b, input, pos + 1, out)
         ELSE GB18030Err(pos, 0, out)
    ELSE IF st < 256
    THEN IF b >= 48 /\ b <= 57
         THEN GB18030RawFeed(st + 256 * b, input, pos + 1, out)
         ELSE IF GB18030MapTwoBytes(st, b) = Unmapped
         THEN GB18030Err(pos, 1, out)
         ELSE GB18030RawFeed(0, input, pos + 1,
                             out \o Utf8Encode(GB18030MapTwoBytes(st, b)))
    ELSE IF st < 65536
    THEN IF b >= 129 /\ b <= 254
         THEN GB18030RawFeed(st + 65536 * b, input, pos + 1, out)
         ELSE GB18030Err(pos, 2, out)
    ELSE IF b >= 48 /\ b <= 57
            /\ GB18030MapFourBytes(st % 256, (st \div 256) % 256,
                                   st \div 65536, b) # Unmapped
    THEN GB18030RawFeed(0, input, pos + 1,
             out \o Utf8Encode(GB18030MapFourBytes(st % 256,
                                   (st \div 256) % 256, st \div 65536, b)))
    ELSE GB18030Err(pos, 3, out)
GB18030RawFeed(st, input, pos, out) ==
    IF pos >= Len(input)
    THEN [st |-> st, out |-> out, err |-> FALSE, upto |-> 0, cause |-> ""]
    ELSE GB18030Byte(st, input[pos + 1], input, pos, out)

\* RawDecoder::raw_feed(input, output) of the engine of `encoding`.
RawFeed(encoding, st, input) ==
    IF encoding = "ascii" THEN AsciiRawFeed(input)
    ELSE IF encoding = "gb18030" THEN GB18030RawFeed(st, input, 0, <<>>)
    ELSE Windows949RawFeed(st, input, 0, <<>>)

\* RawDecoder::raw_finish(output) of the engine of `encoding`.
RawFinish(encoding, st) ==
    IF encoding \in {"windows-949", "gb18030"} /\ st # 0
    THEN [st |-> 0, out |-> <<>>, err |-> TRUE, upto |-> 0,
          cause |-> "incomplete sequence"]
    ELSE [st |-> 0, out |-> <<>>, err |-> FALSE, upto |-> 0, cause |-> ""]

(* ---------------------------- LossyDecoder ---------------------------- *)

\* LossyDecoderNew with the name compared to a spelling no encoding has.
LossyDecoderNew_OtherSpelling(encoding) ==
    IF encoding = "utf8" THEN "Utf8" ELSE "Other"

\* LossyDecoder::new(encoding, sink): which variant `inner` is.
LossyDecoderNew(encoding) == IF encoding = "utf-8" THEN "Utf8" ELSE "Other"

\* Whether t.pop_front(upto as u32) is in bounds (it panics otherwise).
PopFrontInBounds(t, upto) == upto >= 0 /\ upto <= Len(t)

RECURSIVE LossyProcessLoop(_, _, _, _, _)

\* LossyProcessIteration with out.push_char('\u{fffd}') left out.
LossyProcessIteration_NoReplacement(r, encoding, t, out, calls) ==
    IF r.err
    THEN LossyProcessLoop(encoding, r.st, DropFront(t, r.upto), out \o r.out,
                          Append(calls, SinkError(r.cause, "decoder")))
    ELSE [st |-> r.st, panic |-> FALSE,
          calls |-> IF Len(out \o r.out) > 0
                    THEN Append(calls, SinkProcess(out \o r.out, "out"))
                    ELSE calls]

\* LossyProcessIteration with the output pushed at every error instead of
\* once after the loop.
LossyProcessIteration_PushEach(r, encoding, t, out, calls) ==
    IF r.err
    THEN LossyProcessLoop(encoding, r.st, DropFront(t, r.upto), <<>>,
             calls \o <<SinkError(r.cause, "decoder"),
                        SinkProcess((out \o r.out) \o REPLACEMENT_CHARACTER,
                                    "out")>>)
    ELSE [st |-> r.st, panic |-> FALSE,
          calls |-> IF Len(out \o r.out) > 0
                    THEN Append(calls, SinkProcess(out \o r.out, "out"))
                    ELSE calls]

\* LossyProcessIteration with the first error of a call not followed by
\* pop_front: the same input is fed again.
LossyProcessIteration_FeedAgain(r, encoding, t, out, calls) ==
    IF r.err
    THEN [LossyProcessLoop(encoding, r.st,
              IF calls = <<>> THEN t ELSE DropFront(t, r.upto),
              (out \o r.out) \o REPLACEMENT_CHARACTER,
              Append(calls, SinkError(r.cause, "decoder")))
          EXCEPT !.feeds = <<[input |-> t, st |-> r.st, err |-> r.err,
                              upto |-> r.upto]>> \o @]
    ELSE [st |-> r.st, panic |-> FALSE,
          feeds |-> <<[input |-> t, st |-> r.st, err |-> r.err,
                       upto |-> r.upto]>>,
          calls |-> IF Len(out \o r.out) > 0
                    THEN Append(calls, SinkProcess(out \o r.out, "out"))
                    ELSE calls]

\* One call of raw_feed in a process call: the input it was given, the
\* state it left the raw decoder in, and the error it reported, if any.
Feed(t, r) == [input |-> t, st |-> r.st, err |-> r.err, upto |-> r.upto]

\* The result of the rest of a process call, with the call of raw_feed that
\* came before it put in front of the calls it records.
AfterFeed(feed, rest) == [rest EXCEPT !.feeds = <<feed>> \o rest.feeds]

\* One iteration of the loop of LossyDecoder::process on the Other variant,
\* r being what decoder.raw_feed(&*t, &mut out) returned, and the push that
\* follows the loop.  `feeds` records the calls of raw_feed made.
LossyProcessIteration(r, encoding, t, out, calls) ==
    IF r.err
    THEN IF PopFrontInBounds(t, r.upto)
         THEN AfterFeed(Feed(t, r),
                  LossyProcessLoop(encoding, r.st, DropFront(t, r.upto),
                      (out \o r.out) \o REPLACEMENT_CHARACTER,
                      Append(calls, SinkError(r.cause, "decoder"))))
         ELSE [st |-> r.st, panic |-> TRUE, feeds |-> <<Feed(t, r)>>,
               calls |-> Append(calls, SinkError(r.cause, "decoder"))]
    ELSE [st |-> r.st, panic |-> FALSE, feeds |-> <<Feed(t, r)>>,
          calls |-> IF Len(out \o r.out) > 0
                    THEN Append(calls, SinkProcess(out \o r.out, "out"))
                    ELSE calls]

\* The loop of LossyDecoder::process on the Other variant.
LossyProcessLoop(encoding, st, t, out, calls) ==
    LossyProcessIteration(RawFeed(encoding, st, t), encoding, t, out, calls)

\* The decoder after a call: the carry-over inc of its utf8::Decoder, the
\* state st of its RawDecoder, the sink calls made and whether it panicked.
After(inc, st, r) ==
    [inc |-> inc, st |-> st, calls |-> r.calls, panic |-> r.panic]
AfterUtf8(st, u) == After(u.inc, st, u)
AfterOther(inc, o) == After(inc, o.st, o)

\* LossyProcess with the raw decoder started afresh at every call.
LossyProcess_FreshEngine(in, encoding, inc, st, t) ==
    IF in = "Utf8"
    THEN AfterUtf8(st, Utf8Process(inc, t))
    ELSE AfterOther(inc, LossyProcessLoop(encoding, 0, t, <<>>, <<>>))

\* LossyDecoder::process(t): the decoder's new state and its sink calls.
LossyProcess(in, encoding, inc, st, t) ==
    IF in = "Utf8"
    THEN AfterUtf8(st, Utf8Process(inc, t))
    ELSE AfterOther(inc, LossyProcessLoop(encoding, st, t, <<>>, <<>>))

\* LossyDecoder::error(desc).
LossyError(in, desc) ==
    IF in = "Utf8" THEN Utf8Error(desc) ELSE <<SinkError(desc, "caller")>>

\* LossyFinish without the test that `out` is not empty before it is
\* pushed.
LossyFinish_PushEmpty(in, encoding, inc, st) ==
    IF in = "Utf8"
    THEN Utf8Finish(inc)
    ELSE LET r == RawFinish(encoding, st)
             out == IF r.err THEN r.out \o REPLACEMENT_CHARACTER ELSE r.out
         IN  ((IF r.err THEN <<SinkError(r.cause, "decoder")>> ELSE <<>>)
              \o <<SinkProcess(out, "out")>>)
             \o <<SinkFinish>>

\* LossyFinish with sink.finish() called before the trailing error is
\* reported.
LossyFinish_FinishFirst(in, encoding, inc, st) ==
    IF in = "Utf8"
    THEN Utf8Finish(inc)
    ELSE LET r == RawFinish(encoding, st)
             out == IF r.err THEN r.out \o REPLACEMENT_CHARACTER ELSE r.out
         IN  (<<SinkFinish>>
              \o (IF r.err THEN <<SinkError(r.cause, "decoder")>> ELSE <<>>))
             \o (IF Len(out) > 0 THEN <<SinkProcess(out, "out")>> ELSE <<>>)

\* LossyDecoder::finish().
LossyFinish(in, encoding, inc, st) ==
    IF in = "Utf8"
    THEN Utf8Finish(inc)
    ELSE LET r == RawFinish(encoding, st)
             out == IF r.err THEN r.out \o REPLACEMENT_CHARACTER ELSE r.out
         IN  ((IF r.err THEN <<SinkError(r.cause, "decoder")>> ELSE <<>>)
              \o (IF Len(out) > 0 THEN <<SinkProcess(out, "out")>> ELSE <<>>))
             \o <<SinkFinish>>

(* ------------------------- whole streams ------------------------------ *)

\* TendrilSink::from_iter on a Utf8LossyDecoder whose carry-over is inc: the
\* sink calls made for the chunks and for finish, after the calls `calls`.
RECURSIVE Utf8FromIter(_, _, _)
Utf8FromIterNext(u, rest, calls) ==
    IF u.panic THEN calls \o u.calls
    ELSE Utf8FromIter(rest, u.inc, calls \o u.calls)
Utf8FromIter(chunks, inc, calls) ==
    IF chunks = <<>> THEN calls \o Utf8Finish(inc)
    ELSE Utf8FromIterNext(Utf8Process(inc, Head(chunks)), Tail(chunks), calls)

\* TendrilSink::from_iter on a LossyDecoder of a legacy encoding whose raw
\* decoder is in state st.
RECURSIVE LossyFromIter(_, _, _, _)
LossyFromIterNext(o, encoding, rest, calls) ==
    IF o.panic THEN calls \o o.calls
    ELSE LossyFromIter(encoding, rest, o.st, calls \o o.calls)
LossyFromIter(encoding, chunks, st, calls) ==
    IF chunks = <<>> THEN calls \o LossyFinish("Other", encoding, <<>>, st)
    ELSE LossyFromIterNext(LossyProcess("Other", encoding, <<>>, st,
                                        Head(chunks)),
                           encoding, Tail(chunks), calls)

(* --------------------------- the state machine ------------------------ *)

VARIABLES
    kind,        \* the adaptor constructed: "Utf8LossyDecoder" or "LossyDecoder"
    encoding,    \* the encoding a LossyDecoder was constructed with
    inner,       \* LossyDecoderInner's variant: "Utf8" or "Other"
    incomplete,  \* utf8::Decoder's incomplete sequence (the carry-over bytes)
    engine,      \* the RawDecoder's state
    sink,        \* the calls the sink has received, in order
    fed,         \* all the bytes of the chunks processed so far, in order
    cuts,        \* the offsets in fed at which a processed chunk ended
    last,        \* the last call made on the decoder: "new", "process" (a
                 \* chunk with bytes), "process_empty", "error" or "finish"
    finished,    \* finish(self) has consumed the decoder
    panicked     \* a call on the decoder panicked

vars == <<kind, encoding, inner, incomplete, engine, sink, fed, cuts, last,
          finished, panicked>>

\* All sequences over S of length at most n.
SeqsUpTo(S, n) == UNION {[1..k -> S] : k \in 0..n}

\* The bytes the caller of this decoder draws chunks from.
InputBytes == IF inner = "Utf8" THEN Utf8Bytes ELSE LegacyBytes

\* The error(desc) calls the caller has made so far.
CallerErrors == Cardinality({i \in 1..Len(sink) :
                    sink[i].op = "error" /\ sink[i].from = "caller"})

\* Utf8LossyDecoder::new(sink) or LossyDecoder::new(encoding, sink), with a
\* fresh Accumulate.
Init ==
    /\ \/ kind = "Utf8LossyDecoder" /\ encoding = "utf-8" /\ inner = "Utf8"
       \/ /\ kind = "LossyDecoder"
          /\ encoding \in Encodings
          /\ inner = LossyDecoderNew(encoding)
    /\ incomplete = <<>>
    /\ engine = 0
    /\ sink = <<>>
    /\ fed = <<>>
    /\ cuts = {}
    /\ last = "new"
    /\ finished = FALSE
    /\ panicked = FALSE

\* The caller may use the decoder: it was neither moved into finish nor
\* unwound by a panic.
Usable == ~finished /\ ~panicked

\* The decoder and its sink after a call that returned r.
Returned(r) ==
    /\ incomplete' = r.inc
    /\ engine' = r.st
    /\ sink' = sink \o r.calls
    /\ panicked' = r.panic

\* decoder.process(t).
Process(t) ==
    /\ Usable
    /\ Returned(IF kind = "Utf8LossyDecoder"
                THEN AfterUtf8(engine, Utf8Process(incomplete, t))
                ELSE LossyProcess(inner, encoding, incomplete, engine, t))
    /\ fed' = fed \o t
    /\ cuts' = cuts \cup {Len(fed) + Len(t)}
    /\ last' = IF t = <<>> THEN "process_empty" ELSE "process"
    /\ UNCHANGED <<kind, encoding, inner, finished>>

\* decoder.error(desc).
Error(desc) ==
    /\ Usable
    /\ CallerErrors < MaxErrorCalls
    /\ sink' = sink \o (IF kind = "Utf8LossyDecoder"
                        THEN Utf8Error(desc)
                        ELSE LossyError(inner, desc))
    /\ last' = "error"
    /\ UNCHANGED <<kind, encoding, inner, incomplete, engine, fed, cuts,
                   finished, panicked>>

\* decoder.finish().
Finish ==
    /\ Usable
    /\ sink' = sink \o (IF kind = "Utf8LossyDecoder"
                        THEN Utf8Finish(incomplete)
                        ELSE LossyFinish(inner, encoding, incomplete, engine))
    /\ finished' = TRUE
    /\ last' = "finish"
    /\ UNCHANGED <<kind, encoding, inner, incomplete, engine, fed, cuts,
                   panicked>>

Next ==
    \/ \E t \in SeqsUpTo(InputBytes, MaxBytesMixed - Len(fed)) : Process(t)
    \/ \E desc \in CallerMessages : Error(desc)
    \/ Finish

Spec == Init /\ [][Next]_vars

\* A stream: the caller only feeds chunks and finishes, as TendrilSink::
\* from_iter and the tests' check_validate and check_decode do.
NextStream ==
    \/ \E t \in SeqsUpTo(InputBytes, MaxBytes - Len(fed)) : Process(t)
    \/ Finish

SpecStream == Init /\ [][NextStream]_vars

\* The encodings whose engine holds bytes of a sequence between calls, and
\* the single-byte one.
LegacyEncodings == {"ascii", "windows-949", "gb18030"}

\* LossyDecoder::new(encoding, sink) for a legacy encoding.
InitLegacy ==
    /\ kind = "LossyDecoder"
    /\ encoding \in LegacyEncodings
    /\ inner = LossyDecoderNew(encoding)
    /\ incomplete = <<>>
    /\ engine = 0
    /\ sink = <<>>
    /\ fed = <<>>
    /\ cuts = {}
    /\ last = "new"
    /\ finished = FALSE
    /\ panicked = FALSE

\* The bytes the caller of a legacy decoder draws chunks from.
EngineBytes == IF encoding = "gb18030" THEN GB18030Bytes ELSE LegacyBytes

\* A stream given to a LossyDecoder of a legacy encoding.
NextLegacy ==
    \/ \E t \in SeqsUpTo(EngineBytes, MaxBytes - Len(fed)) : Process(t)
    \/ Finish

SpecLegacy == InitLegacy /\ [][NextLegacy]_vars

(* ------------------------ what the sink received ---------------------- *)

\* The concatenation of the text chunks pushed, as check_decode builds it.
RECURSIVE ConcatText(_)
ConcatText(log) ==
    IF log = <<>> THEN <<>>
    ELSE (IF Head(log).op = "process" THEN Head(log).text ELSE <<>>)
         \o ConcatText(Tail(log))

\* errors.len() of the Accumulate sink.
ErrorCount(log) == Cardinality({i \in 1..Len(log) : log[i].op = "error"})

\* Whether a sink record is an error notice raised by the decoder itself.
IsDecoderError(r) == r.op = "error" /\ r.from = "decoder"

\* The error notices the decoder raised itself.
DecoderErrors(log) == Cardinality({i \in 1..Len(log) : IsDecoderError(log[i])})

\* The number of U+FFFD characters in a text.
CountReplacement(text) ==
    Cardinality({i \in 1..(Len(text) - 2) :
                    SubSeq(text, i, i + 2) = REPLACEMENT_CHARACTER})

\* Whether a sink record is a text chunk.
IsPush(r) == r.op = "process"

\* The text chunks pushed, in order: the tendrils of the Accumulate sink.
Tendrils(log) ==
    [i \in 1..Len(SelectSeq(log, IsPush)) |-> SelectSeq(log, IsPush)[i].text]

\* The text chunks pushed that hold exactly one U+FFFD and nothing else.
ReplacementChunks(log) ==
    Cardinality({i \in 1..Len(log) :
        log[i].op = "process" /\ log[i].text = REPLACEMENT_CHARACTER})

(* ------------------- the reference UTF-8 decoder ---------------------- *)

\* The UTF-8 decoder of the Encoding Standard, one byte at a time: the code
\* points decoded (65533 for each error) and the number of errors.  d is the
\* decoder's state: the code point so far, the bytes needed and the bounds
\* of the next byte.
RefStart == [cp |-> 0, needed |-> 0, lower |-> 128, upper |-> 191]

RefLead(b) ==
    IF b >= 194 /\ b <= 223
    THEN [cp |-> b - 192, needed |-> 1, lower |-> 128, upper |-> 191]
    ELSE IF b >= 224 /\ b <= 239
    THEN [cp |-> b - 224, needed |-> 2,
          lower |-> IF b = 224 THEN 160 ELSE 128,
          upper |-> IF b = 237 THEN 159 ELSE 191]
    ELSE [cp |-> b - 240, needed |-> 3,
          lower |-> IF b = 240 THEN 144 ELSE 128,
          upper |-> IF b = 244 THEN 143 ELSE 191]

RECURSIVE RefDecode(_, _, _, _, _)
RefDecode(bytes, i, d, cps, errors) ==
    IF i > Len(bytes)
    THEN IF d.needed # 0
         THEN [cps |-> Append(cps, 65533), errors |-> errors + 1]
         ELSE [cps |-> cps, errors |-> errors]
    ELSE IF d.needed = 0
    THEN IF bytes[i] <= 127
         THEN RefDecode(bytes, i + 1, RefStart, Append(cps, bytes[i]), errors)
         ELSE IF bytes[i] >= 194 /\ bytes[i] <= 244
         THEN RefDecode(bytes, i + 1, RefLead(bytes[i]), cps, errors)
         ELSE RefDecode(bytes, i + 1, RefStart, Append(cps, 65533), errors + 1)
    ELSE IF bytes[i] < d.lower \/ bytes[i] > d.upper
    THEN RefDecode(bytes, i, RefStart, Append(cps, 65533), errors + 1)
    ELSE IF d.needed = 1
    THEN RefDecode(bytes, i + 1, RefStart,
                   Append(cps, d.cp * 64 + (bytes[i] - 128)), errors)
    ELSE RefDecode(bytes, i + 1,
                   [cp |-> d.cp * 64 + (bytes[i] - 128),
                    needed |-> d.needed - 1, lower |-> 128, upper |-> 191],
                   cps, errors)

\* The reference's result for a whole input.
Reference(bytes) == RefDecode(bytes, 1, RefStart, <<>>, 0)

\* The code points cps as UTF-8 text.
RECURSIVE EncodeAll(_)
EncodeAll(cps) ==
    IF cps = <<>> THEN <<>> ELSE Utf8Encode(Head(cps)) \o EncodeAll(Tail(cps))

\* Whether bytes is well-formed UTF-8.
WellFormed(bytes) == Reference(bytes).errors = 0

(* ------------------------------- C1 ----------------------------------- *)

\* C1: chunk-boundary invariance on the UTF-8 path.  When a well-formed
\* UTF-8 byte string has been fed in any split into chunks and the decoder
\* has finished, the concatenation of the text chunks the sink received is
\* the original string and the sink received no error.
C1_ChunkBoundaryInvariance ==
    (finished /\ inner = "Utf8" /\ WellFormed(fed))
        => (ConcatText(sink) = fed /\ ErrorCount(sink) = 0)

\* A four-byte character fed one byte per chunk, with empty chunks before
\* it: the splits fall 1, 2 and 3 bytes into the character.
C1_Witness ==
    /\ finished /\ kind = "Utf8LossyDecoder"
    /\ fed = <<240, 191, 189, 191>>
    /\ cuts = {0, 1, 2, 3, 4}
    /\ sink = <<SinkProcess(fed, "from_slice"), SinkFinish>>

(* ------------------------------- C2 ----------------------------------- *)

\* C2 as stated: after finish, the number of error calls the sink received
\* equals the number of text chunks that are one replacement character.
C2_Original == finished => ErrorCount(sink) = ReplacementChunks(sink)

\* C2 as amended: after finish, the number of error calls the sink received
\* equals the number of U+FFFD characters the decoder inserted, that is the
\* U+FFFD characters of the pushed text that are not decoded from a
\* well-formed U+FFFD of the input.  On the UTF-8 path each inserted one is
\* a chunk of its own; on the legacy path they are inside the aggregated
\* chunks.
C2_ErrorsMatchReplacements ==
    finished =>
        /\ ErrorCount(sink) = CountReplacement(ConcatText(sink))
               - (IF inner = "Utf8" THEN CountReplacement(fed) ELSE 0)
        /\ inner = "Utf8" =>
               ErrorCount(sink) = Cardinality({i \in 1..Len(sink) :
                   /\ sink[i].op = "process"
                   /\ sink[i].text = REPLACEMENT_CHARACTER
                   /\ sink[i].from = "replacement"})

\* A legacy decoder that reported two errors in one call and pushed both
\* replacement characters in one chunk.
C2_Witness ==
    /\ finished /\ inner = "Other"
    /\ ErrorCount(sink) = 2
    /\ \E i \in 1..Len(sink) :
          sink[i].op = "process" /\ CountReplacement(sink[i].text) = 2

(* ------------------------------- C3 ----------------------------------- *)

\* The index of the first record after i that is not an error notice raised
\* by the decoder (Len(log) + 1 when there is none).
RECURSIVE NextOther(_, _)
NextOther(log, i) ==
    IF i + 1 > Len(log) \/ ~IsDecoderError(log[i + 1]) THEN i + 1
    ELSE NextOther(log, i + 1)

\* Record i of the log is immediately followed by a push of one chunk that
\* holds exactly one replacement character.
ReplacementFollows(log, i) ==
    /\ i < Len(log)
    /\ log[i + 1].op = "process"
    /\ log[i + 1].text = REPLACEMENT_CHARACTER

EndsIncomplete ==
    IF inner = "Utf8" THEN incomplete # <<>> ELSE engine # 0

\* C4: when finish is called on a decoder whose input ended inside a
\* multi-byte sequence, the sink receives exactly one error notice, then one
\* replacement character, then finish, however many bytes of the sequence
\* had arrived; when the input ended on a character boundary the sink
\* receives finish and nothing else.
C4_FinishIncomplete ==
    [][(~finished /\ finished') =>
          LET n == Len(sink)
          IN  /\ Len(sink') >= n /\ TakeFront(sink', n) = sink
              /\ IF EndsIncomplete
                 THEN /\ Len(sink') = n + 3
                      /\ IsDecoderError(sink'[n + 1])
                      /\ sink'[n + 2].op = "process"
                      /\ sink'[n + 2].text = REPLACEMENT_CHARACTER
                      /\ sink'[n + 3] = SinkFinish
                 ELSE sink' = Append(sink, SinkFinish)]_vars

\* A UTF-8 stream finished with three bytes of a four-byte sequence carried
\* over: one notice, one replacement character, then finish.
C4_Witness ==
    /\ finished /\ inner = "Utf8" /\ Len(incomplete) = 3
    /\ fed = <<120>> \o incomplete
    /\ sink = <<SinkProcess(<<120>>, "subtendril"),
                SinkError("incomplete byte sequence at end of stream",
                          "decoder"),
                SinkProcess(REPLACEMENT_CHARACTER, "replacement"),
                SinkFinish>>

(* ------------------------------- C5 ----------------------------------- *)

\* The stream of the example: "xy", EA, FF, 99, AE, "z".
C5_ExampleBytes == <<120, 121, 234, 255, 153, 174, 122>>

\* What the sink holds for the example: "xy", four replacement characters
\* and "z" as six chunks, and four error notices.
C5_ExampleResult(log) ==
    /\ Tendrils(log) = <<<<120, 121>>, REPLACEMENT_CHARACTER,
                         REPLACEMENT_CHARACTER, REPLACEMENT_CHARACTER,
                         REPLACEMENT_CHARACTER, <<122>>>>
    /\ ErrorCount(log) = 4
    /\ Reference(C5_ExampleBytes).errors = 4
    /\ ConcatText(log) = EncodeAll(Reference(C5_ExampleBytes).cps)

\* The example fed as one chunk, and split after the incomplete lead byte
\* and after the invalid byte as test validate_utf8 splits it.
C5_Example ==
    /\ C5_ExampleResult(Utf8FromIter(<<C5_ExampleBytes>>, <<>>, <<>>))
    /\ C5_ExampleResult(Utf8FromIter(<<<<120, 121, 234>>, <<255>>,
                                       <<153, 174, 122>>>>, <<>>, <<>>))

\* C5: on the UTF-8 path consecutive errors are not merged.  The number of
\* error notices and the text pushed are those of the reference decoder,
\* which reports one error and one U+FFFD for each ill-formed subsequence;
\* every notice is followed by a chunk of its own that holds one replacement
\* character; and the example stream gives "xy", four replacement
\* characters, "z" and four errors.
C5_ErrorsNotMerged ==
    /\ C5_Example
    /\ (finished /\ inner = "Utf8") =>
          /\ DecoderErrors(sink) = Reference(fed).errors
          /\ ConcatText(sink) = EncodeAll(Reference(fed).cps)
          /\ \A i \in 1..Len(sink) :
                 IsDecoderError(sink[i]) => ReplacementFollows(sink, i)

\* One chunk holding "x", an incomplete lead byte, a byte that is never
\* valid and a stray continuation byte: three adjacent errors, each with its
\* own notice and its own replacement character.
C5_Witness ==
    /\ finished /\ kind = "Utf8LossyDecoder"
    /\ fed = <<120, 239, 255, 191>> /\ cuts = {4}
    /\ Tendrils(sink) = <<<<120>>, REPLACEMENT_CHARACTER,
                          REPLACEMENT_CHARACTER, REPLACEMENT_CHARACTER>>
    /\ ErrorCount(sink) = 3

(* ------------------------------- C6 ----------------------------------- *)

\* C6: on the legacy path, bytes split across any number of chunks at any
\* positions give the same concatenated text and the same number of errors
\* as the same bytes given as one chunk.
C6_LegacySplitInvariance ==
    (finished /\ inner = "Other") =>
        /\ ConcatText(sink)
               = ConcatText(LossyFromIter(encoding, <<fed>>, 0, <<>>))
        /\ ErrorCount(sink)
               = ErrorCount(LossyFromIter(encoding, <<fed>>, 0, <<>>))

\* A windows-949 stream cut between the lead byte and the trail byte of a
\* two-byte character, with an empty chunk before it, between the two and
\* after them: the character is decoded and no error is raised.
C6_Witness ==
    /\ finished /\ encoding = "windows-949"
    /\ fed = <<190, 200, 120>> /\ cuts = {0, 1, 2, 3}
    /\ ConcatText(sink) = Utf8Encode(MapTwoBytes(190, 200)) \o <<120>>
    /\ ErrorCount(sink) = 0

(* ------------------------------- C7 ----------------------------------- *)

\* The chunk of the process call that made this step.
StepChunk == DropFront(fed', Len(fed))

\* This step made on a Utf8LossyDecoder in the same state: what its handler
\* of the call sends to the sink and the carry-over it leaves.
AsUtf8LossyDecoder(u) ==
    /\ sink' = sink \o u.calls
    /\ incomplete' = u.inc
    /\ panicked' = u.panic

\* C7: a LossyDecoder constructed with UTF-8 is a transparent wrapper around
\* Utf8LossyDecoder.  It holds the Utf8 variant; every call of process,
\* error and finish sends the sink what the same call on a Utf8LossyDecoder
\* sends and leaves the same carry-over; and no raw decoder is used.
C7_Utf8Wrapper ==
    [][(kind = "LossyDecoder" /\ encoding = "utf-8") =>
          /\ inner = "Utf8"
          /\ engine' = 0
          /\ last' \in {"process", "process_empty"}
                => AsUtf8LossyDecoder(Utf8Process(incomplete, StepChunk))
          /\ last' = "error"
                => \E desc \in CallerMessages :
                       /\ sink' = sink \o Utf8Error(desc)
                       /\ incomplete' = incomplete
          /\ last' = "finish"
                => sink' = sink \o Utf8Finish(incomplete)]_vars

\* A LossyDecoder constructed with UTF-8 that was fed a three-byte
\* character in three chunks, was called with error(desc) between them and
\* was finished: the character comes out of the carry-over as one chunk.
C7_Witness ==
    /\ kind = "LossyDecoder" /\ encoding = "utf-8" /\ finished
    /\ engine = 0
    /\ fed = REPLACEMENT_CHARACTER /\ cuts = {1, 2, 3}
    /\ sink = <<SinkError("caller error", "caller"),
                SinkProcess(REPLACEMENT_CHARACTER, "from_slice"),
                SinkFinish>>

(* ------------------------------- C8 ----------------------------------- *)

\* The sink calls this step appended.
StepCalls == DropFront(sink', Len(sink))

C9_EmptyChunkNoOp ==
    /\ [](finished /\ fed = <<>> =>
            \A i \in 1..Len(sink) :
                ~IsPush(sink[i]) /\ ~IsDecoderError(sink[i]))
    /\ [][last' = "process_empty" =>
            /\ sink' = sink
            /\ incomplete' = incomplete
            /\ engine' = engine
            /\ ~panicked']_vars

\* An empty chunk was just processed in the middle of a multi-byte
\* sequence: two bytes are carried over and the sink has received nothing.
C9_Witness ==
    /\ last = "process_empty" /\ ~finished
    /\ Len(incomplete) = 2 /\ fed = incomplete
    /\ sink = <<>>

(* ------------------------------- C10 ---------------------------------- *)

\* C10: the sink's finish is called exactly once when the decoder is
\* finished and not before, and it is the last call the sink receives: the
\* trailing error notice and text reach the sink before it, and nothing
\* reaches the sink after it.
C10_FinishProtocol ==
    /\ finished <=> (\E i \in 1..Len(sink) : sink[i].op = "finish")
    /\ \A i \in 1..Len(sink) : sink[i].op = "finish" => i = Len(sink)

\* A windows-949 stream finished after a lead byte: the notice of the
\* incomplete sequence, the replacement character, then finish.
C10_Witness ==
    /\ finished /\ encoding = "windows-949" /\ engine # 0
    /\ sink = <<SinkError("incomplete sequence", "decoder"),
                SinkProcess(REPLACEMENT_CHARACTER, "out"),
                SinkFinish>>

(* ------------------------------- C11 ---------------------------------- *)

\* Whether text is a sub-span of chunk: the bytes at some offset of it.
IsSubSpan(text, chunk) ==
    \E off \in 0..(Len(chunk) - Len(text)) :
        SubSeq(chunk, off + 1, off + Len(text)) = text

\* Whether text is well-formed and holds exactly one code point.
OneCodePoint(text) ==
    Reference(text).errors = 0 /\ Len(Reference(text).cps) = 1

\* C11: every text chunk the UTF-8 path pushes is either a sub-span of the
\* input chunk being processed, or a constructed chunk that holds exactly
\* one code point: a character completed from carried-over bytes, or U+FFFD.
\* No constructed chunk holds more than one code point.
C11_SubSpanOrOneCodePoint ==
    [][inner = "Utf8" =>
          \A i \in 1..Len(StepCalls) :
              IsPush(StepCalls[i]) =>
                  IF StepCalls[i].from = "subtendril"
                  THEN last' = "process"
                       /\ IsSubSpan(StepCalls[i].text, StepChunk)
                  ELSE StepCalls[i].from \in {"from_slice", "replacement"}
                       /\ OneCodePoint(StepCalls[i].text)]_vars

\* A call whose chunk completes a carried-over character and goes on with
\* "x": the character is pushed as a constructed chunk, "x" as a sub-span.
C11_Witness ==
    /\ kind = "Utf8LossyDecoder" /\ last = "process" /\ ~finished
    /\ fed = <<239, 189, 191, 120>> /\ cuts = {1, 4}
    /\ sink = <<SinkProcess(<<239, 189, 191>>, "from_slice"),
                SinkProcess(<<120>>, "subtendril")>>

(* ------------------------------- C12 ---------------------------------- *)

\* The reference decoder again, keeping for every error the length in bytes
\* of the text decoded before it: n is the length of the text so far.
RECURSIVE RefErrorsAt(_, _, _, _, _)
RefErrorsAt(bytes, i, d, n, at) ==
    IF i > Len(bytes)
    THEN IF d.needed # 0 THEN Append(at, n) ELSE at
    ELSE IF d.needed = 0
    THEN IF bytes[i] <= 127
         THEN RefErrorsAt(bytes, i + 1, RefStart, n + 1, at)
         ELSE IF bytes[i] >= 194 /\ bytes[i] <= 244
         THEN RefErrorsAt(bytes, i + 1, RefLead(bytes[i]), n, at)
         ELSE RefErrorsAt(bytes, i + 1, RefStart, n + 3, Append(at, n))
    ELSE IF bytes[i] < d.lower \/ bytes[i] > d.upper
    THEN RefErrorsAt(bytes, i, RefStart, n + 3, Append(at, n))
    ELSE IF d.needed = 1
    THEN RefErrorsAt(bytes, i + 1, RefStart,
             n + Len(Utf8Encode(d.cp * 64 + (bytes[i] - 128))), at)
    ELSE RefErrorsAt(bytes, i + 1,
                     [cp |-> d.cp * 64 + (bytes[i] - 128),
                      needed |-> d.needed - 1, lower |-> 128, upper |-> 191],
                     n, at)

\* The offsets of the U+FFFD characters of text, in increasing order.
RECURSIVE ReplacementsAt(_, _)
ReplacementsAt(text, off) ==
    IF off + 3 > Len(text) THEN <<>>
    ELSE IF SubSeq(text, off + 1, off + 3) = REPLACEMENT_CHARACTER
    THEN <<off>> \o ReplacementsAt(text, off + 3)
    ELSE ReplacementsAt(text, off + 1)

\* For each error of the stream fed so far, in input order, the length of
\* the text decoded from the bytes that precede its erroneous sequence.
\* The legacy engines of the model decode no byte sequence to U+FFFD, so
\* there every U+FFFD of the text stands for an error.
TextBeforeError ==
    IF inner = "Utf8" THEN RefErrorsAt(fed, 1, RefStart, 0, <<>>)
    ELSE ReplacementsAt(ConcatText(sink), 0)

\* Which of the decoder's notices record i of the log is: 1 for the first.
NoticeNumber(log, i) ==
    Cardinality({j \in 1..i : IsDecoderError(log[j])})

\* The length of the text pushed before record i of the log.
PushedBefore(log, i) == Len(ConcatText(TakeFront(log, i - 1)))

\* When notice i reaches the sink, the text decoded from all the bytes that
\* precede its erroneous sequence has been pushed and nothing else has, and
\* the next push begins with its replacement character.
\* (log is the sink's log, at the value of TextBeforeError.)
InInputOrder(log, at, i) ==
    /\ NoticeNumber(log, i) <= Len(at)
    /\ PushedBefore(log, i) = at[NoticeNumber(log, i)]
    /\ i < Len(log)
    /\ IsPush(log[i + 1])
    /\ TakeFront(log[i + 1].text, 3) = REPLACEMENT_CHARACTER
AllInInputOrder(log, at) ==
    \A i \in 1..Len(log) : IsDecoderError(log[i]) => InInputOrder(log, at, i)

\* When notice i of a legacy process call reaches the sink, nothing decoded
\* from bytes after its erroneous sequence has been pushed; the text that
\* precedes the sequence in the same call and its replacement character are
\* in the one chunk pushed after the notices of the call.
InCallOrder(log, at, i) ==
    LET j == NextOther(log, i)
        k == NoticeNumber(log, i)
    IN  /\ k <= Len(at)
        /\ j <= Len(log) /\ IsPush(log[j])
        /\ PushedBefore(log, i) = PushedBefore(log, j)
        /\ PushedBefore(log, j) <= at[k]
        /\ at[k] + 3 <= PushedBefore(log, j + 1)
AllInCallOrder(log, at) ==
    \A i \in 1..Len(log) : IsDecoderError(log[i]) => InCallOrder(log, at, i)

FeedsOf(st, t) == LossyProcessLoop(encoding, st, t, <<>>, <<>>).feeds

\* The bytes the engine consumed over the calls of raw_feed F, in order: up
\* to the reported offset at an error, the whole input otherwise.
RECURSIVE Consumed(_)
Consumed(F) ==
    IF F = <<>> THEN <<>>
    ELSE (IF Head(F).err THEN TakeFront(Head(F).input, Head(F).upto)
          ELSE Head(F).input) \o Consumed(Tail(F))

\* The calls of raw_feed F of one process call on chunk t lose and repeat no
\* byte: the first is given t; after an error at offset k the next is given
\* the input from its byte k on; the last one reports no error; and the
\* bytes consumed are those of t, once each and in order.
NoByteLostOrDuplicated(F, t) ==
    /\ F[1].input = t
    /\ \A i \in 1..(Len(F) - 1) :
          /\ F[i].err
          /\ F[i].upto >= 0 /\ F[i].upto <= Len(F[i].input)
          /\ F[i + 1].input = DropFront(F[i].input, F[i].upto)
    /\ ~F[Len(F)].err
    /\ Consumed(F) = t

\* C13: on the legacy path no input byte is lost or duplicated.  In every
\* process call the feed after an error at offset k starts at byte k of the
\* remaining input, the loop ends only at a feed without error, every byte
\* of the chunk is consumed once and in order, and the raw decoder keeps
\* its state for the next call.
C13_NoByteLost ==
    [][(inner = "Other" /\ last' \in {"process", "process_empty"}) =>
          /\ NoByteLostOrDuplicated(FeedsOf(engine, StepChunk), StepChunk)
          /\ ~panicked'
          /\ engine' = FeedsOf(engine, StepChunk)[Len(FeedsOf(engine,
                                                      StepChunk))].st]_vars

\* A gb18030 stream cut after the first two bytes of a four-byte sequence,
\* followed by a byte that cannot be its third: the engine reports the
\* error one byte before the start of the chunk, the call sends the notice
\* and panics, and the byte '0' that was to be decoded again is lost.
C13_Witness ==
    /\ encoding = "gb18030" /\ panicked
    /\ fed = <<129, 48, 255>> /\ cuts = {2, 3}
    /\ sink = <<SinkError("invalid sequence", "decoder")>>

(* ------------------------------- C14 ---------------------------------- *)

\* Every error among the calls of raw_feed F reports an offset that is not
\* negative and not beyond the end of the input given.
ErrorsInBounds(F) ==
    \A i \in 1..Len(F) :
        F[i].err => PopFrontInBounds(F[i].input, F[i].upto)

\* C14: at every error the engine reports in LossyDecoder::process,
\* err.upto >= 0 holds and err.upto does not exceed the length of the
\* remaining input, so pop_front(err.upto) is in bounds and the call does
\* not panic, also when the erroneous sequence began in an earlier chunk.
C14_UptoInBounds ==
    [][(inner = "Other" /\ last' \in {"process", "process_empty"}) =>
          ErrorsInBounds(FeedsOf(engine, StepChunk)) /\ ~panicked']_vars

\* A gb18030 stream cut after the first three bytes of a four-byte
\* sequence, followed by '(': the engine backs up over the three bytes and
\* reports the error at offset -2 of the chunk "(", and the call panics.
C14_Witness ==
    /\ encoding = "gb18030" /\ panicked /\ engine = 0
    /\ fed = <<129, 48, 129, 40>> /\ cuts = {3, 4}
    /\ sink = <<SinkError("invalid sequence", "decoder")>>

(* ------------------------------- C15 ---------------------------------- *)

\* The calls of decode a process call of the UTF-8 path makes on chunk t
\* when the decoder's carry-over is inc.
ScansOf(inc, t) == Utf8Process(inc, t).scans

\* The input left at each call of decode (scans S of a call on chunk t) and
\* at each call of raw_feed (feeds F): its length.
ScanLeft(S, t) == [i \in 1..Len(S) |-> Len(t) - S[i].start]
FeedLeft(F) == [i \in 1..Len(F) |-> Len(F[i].input)]

\* Whether the decoder holds bytes of an unfinished sequence before each
\* call of decode or of raw_feed, `first` telling it for the first call.
ScanPending(S, first) ==
    [i \in 1..Len(S) |-> IF i = 1 THEN first ELSE S[i - 1].inc # <<>>]
FeedPending(F, first) ==
    [i \in 1..Len(F) |-> IF i = 1 THEN first ELSE F[i - 1].st # 0]

\* The input left strictly shrinks from each iteration to the next.
Shrinks(left) == \A i \in 1..(Len(left) - 1) : left[i + 1] < left[i]

\* From each iteration to the next the input left strictly shrinks, or it
\* stays as it is while the bytes the decoder held are given up; so the
\* pair (input left, bytes held) decreases and the iterations are at most
\* the length of the chunk plus two.
Progresses(left, pending) ==
    /\ \A i \in 1..(Len(left) - 1) :
          \/ left[i + 1] < left[i]
          \/ left[i + 1] = left[i] /\ pending[i] /\ ~pending[i + 1]
    /\ Len(left) <= left[1] + 2

\* The loop of the UTF-8 path ends at a scan that is not an error, that of
\* the legacy path at a feed without error.
ScansEnd(S) ==
    /\ \A i \in 1..(Len(S) - 1) : S[i].status = "Error"
    /\ S[Len(S)].status \in {"Ok", "Incomplete"}
FeedsEnd(F) ==
    /\ \A i \in 1..(Len(F) - 1) : F[i].err
    /\ ~F[Len(F)].err

\* The scans S of a call on chunk t, `first` telling whether the decoder
\* carried bytes over into the call, end and progress; so do the feeds F of
\* a call that began in a state where `first` tells whether the engine held
\* bytes; and the scans or feeds end with the input left shrinking strictly.
ScansTerminate(S, t, first) ==
    ScansEnd(S) /\ Progresses(ScanLeft(S, t), ScanPending(S, first))
FeedsTerminate(F, first) ==
    FeedsEnd(F) /\ Progresses(FeedLeft(F), FeedPending(F, first))
ScansShrink(S, t) == ScansEnd(S) /\ Shrinks(ScanLeft(S, t))

TrailingBytes(inc, t) ==
    Len(inc) <= Len(t) /\ inc = DropFront(t, Len(t) - Len(inc))

\* The carry-over after the process call with scans S: at most three bytes,
\* what the last scan left, and not empty only if that scan was incomplete.
CarryOverAfter(S, inc) ==
    /\ inc = S[Len(S)].inc
    /\ Len(inc) <= 3
    /\ inc # <<>> => S[Len(S)].status = "Incomplete"

\* The carry-over is empty after every scan of S that completed a
\* sequence, reported an error or ended cleanly.
EmptyAfterCompleted(S) ==
    \A i \in 1..Len(S) :
        (S[i].ch # <<>> \/ S[i].status \in {"Ok", "Error"})
            => S[i].inc = <<>>
CarryOverStated(S, inc) == CarryOverAfter(S, inc) /\ EmptyAfterCompleted(S)

\* C16 as stated: after every process call of the UTF-8 path the
\* carry-over holds at most three bytes and is not empty only when the last
\* scan of the call ended incomplete; and it is empty after any scan that
\* completed a sequence, reported an error or ended cleanly.
C16_Original ==
    [][(inner = "Utf8" /\ last' \in {"process", "process_empty"}) =>
          CarryOverStated(ScansOf(incomplete, StepChunk), incomplete')]_vars

\* What scan i of the scans S of a call on chunk t left as carry-over, old
\* being the carry-over before the call: nothing after a scan that ended
\* Ok or Error; after an incomplete scan, the last bytes of t, or old
\* followed by all of t when the scan is the first of the call and
\* completed nothing.  After a scan that completed the carried-over
\* sequence the carry-over holds bytes of t only.
CarryOverOfScan(S, i, old, t) ==
    IF S[i].status \in {"Ok", "Error"} THEN S[i].inc = <<>>
    ELSE /\ S[i].inc # <<>>
         /\ \/ TrailingBytes(S[i].inc, t)
            \/ i = 1 /\ S[i].ch = <<>> /\ S[i].inc = old \o t
         /\ S[i].ch # <<>> => TrailingBytes(S[i].inc, t)

\* The carry-over after the call with scans S on chunk t is inc, and each
\* scan left what CarryOverOfScan says, old being the carry-over before.
CarryOverOfCall(S, old, t, inc) ==
    /\ CarryOverAfter(S, inc)
    /\ \A i \in 1..Len(S) : CarryOverOfScan(S, i, old, t)

\* C16 as amended: after every process call of the UTF-8 path the
\* carry-over holds at most three bytes and is not empty only when the last
\* scan of the call ended incomplete; it is empty after any scan that ended
\* Ok or Error; and a scan that completed the carried-over sequence and
\* ended incomplete leaves only trailing bytes of the current chunk.
C16_CarryOver ==
    [][(inner = "Utf8" /\ last' \in {"process", "process_empty"}) =>
          CarryOverOfCall(ScansOf(incomplete, StepChunk), incomplete,
                          StepChunk, incomplete')]_vars

\* A decoder that carried over EF and was given BF BD EF: the scan
\* completes U+FFFD from the carry-over and ends incomplete with the new
\* lead byte EF carried over.
C16_Witness ==
    /\ kind = "Utf8LossyDecoder" /\ last = "process"
    /\ fed = <<239, 191, 189, 239>> /\ cuts = {1, 4}
    /\ incomplete = <<239>>
    /\ sink = <<SinkProcess(REPLACEMENT_CHARACTER, "from_slice")>>

(* ------------------------------- C17 ---------------------------------- *)

\* The valid run of scan i of the scans S of a call on chunk t lies inside
\* t, at or after the start of the scan's input, and is well-formed UTF-8.
ValidRunInChunk(S, i, t) ==
    S[i].len > 0 =>
        /\ S[i].offset >= S[i].start
        /\ SubtendrilInBounds(t, S[i].offset, S[i].len)
        /\ WellFormed(Subtendril(t, S[i].offset, S[i].len))

\* The sub-spans among the sink calls `calls`, in order.
IsSubSpanPush(r) == IsPush(r) /\ r.from = "subtendril"
SubSpansPushed(calls) == Tendrils(SelectSeq(calls, IsSubSpanPush))

\* The valid runs of the scans S of a call on chunk t, in order.
IsRun(scan) == scan.len > 0
RunsOf(R, t) == [i \in 1..Len(R) |-> Subtendril(t, R[i].offset, R[i].len)]
ValidRuns(S, t) == RunsOf(SelectSeq(S, IsRun), t)

\* Every valid run of the scans S of a call on chunk t lies inside t, and
\* the sub-spans pushed are those runs and are well-formed UTF-8.
RunsSafe(S, t, pushed) ==
    /\ \A i \in 1..Len(S) : ValidRunInChunk(S, i, t)
    /\ pushed = ValidRuns(S, t)
    /\ \A i \in 1..Len(pushed) : WellFormed(pushed[i])

\* C17: reinterpreting the sub-span as text is safe.  In every iteration of
\* Utf8LossyDecoder::process, also after an error, the valid run the
\* scanner returned lies inside the chunk (offset >= 0 and offset + length
\* <= chunk length), so subtendril does not fail; and the bytes pushed as
\* text without validation are those runs and are well-formed UTF-8.
C17_ZeroCopySafe ==
    [][(inner = "Utf8" /\ last' \in {"process", "process_empty"}) =>
          /\ ~panicked'
          /\ RunsSafe(ScansOf(incomplete, StepChunk), StepChunk,
                      SubSpansPushed(StepCalls))]_vars

\* A decoder that carried over EF and was given "x", FF, "x": the first
\* scan gives up the carried-over byte, the second finds the run "x" at
\* offset 0 and the error at FF, the third finds the run "x" at offset 2.
C17_Witness ==
    /\ kind = "Utf8LossyDecoder" /\ last = "process"
    /\ fed = <<239, 120, 255, 120>> /\ cuts = {1, 4}
    /\ sink = <<SinkError("invalid byte sequence", "decoder"),
                SinkProcess(REPLACEMENT_CHARACTER, "replacement"),
                SinkProcess(<<120>>, "subtendril"),
                SinkError("invalid byte sequence", "decoder"),
                SinkProcess(REPLACEMENT_CHARACTER, "replacement"),
                SinkProcess(<<120>>, "subtendril")>>

(* ------------------------------- C18 ---------------------------------- *)

\* The chunks with bytes that were processed, in order: fed cut at the
\* offsets of cuts, from offset `from` on.
RECURSIVE ChunksFrom(_)
ChunksFrom(from) ==
    IF \A c \in cuts : c <= from THEN <<>>
    ELSE LET next == CHOOSE c \in cuts :
                         c > from /\ \A e \in cuts : e > from => c <= e
         IN  <<SubSeq(fed, from + 1, next)>> \o ChunksFrom(next)

\* Whether a sink record is not an error passed through from the caller.
NotFromCaller(r) == r.from # "caller"

\* What the sink receives when the same chunks are processed and the
\* decoder is finished with no call of error(desc) in between.
WithoutErrorCalls ==
    IF inner = "Utf8" THEN Utf8FromIter(ChunksFrom(0), <<>>, <<>>)
    ELSE LossyFromIter(encoding, ChunksFrom(0), 0, <<>>)

\* C18: error(desc) on either decoder is a pure pass-through.  The sink
\* receives exactly one error call with the same message and no text chunk,
\* the carry-over and the raw decoder's state stay as they are, and the
\* decoding of the chunks is unaffected: apart from the passed-through
\* errors the sink receives what it receives without the calls of error.
C18_ErrorPassThrough ==
    /\ [](finished => SelectSeq(sink, NotFromCaller) = WithoutErrorCalls)
    /\ [][last' = "error" =>
            /\ \E desc \in CallerMessages :
                   sink' = Append(sink, SinkError(desc, "caller"))
            /\ incomplete' = incomplete
            /\ engine' = engine
            /\ ~panicked']_vars

\* A windows-949 decoder whose error(desc) was called between the lead
\* byte and the trail byte of a character: the message is passed through
\* and the character is decoded.
C18_Witness ==
    /\ encoding = "windows-949" /\ finished
    /\ fed = <<190, 200>> /\ cuts = {1, 2}
    /\ sink = <<SinkError("caller error", "caller"),
                SinkProcess(Utf8Encode(MapTwoBytes(190, 200)), "out"),
                SinkFinish>>

(* ------------------------------- C19 ---------------------------------- *)

\* C19: on the UTF-8 path, for any bytes, well-formed or not, and any split
\* of them into chunks, the concatenation of the text pushed and the number
\* of errors after finish are those of the same bytes fed as one chunk.
SameTextAndErrors(log, one) ==
    ConcatText(log) = ConcatText(one) /\ ErrorCount(log) = ErrorCount(one)
C19_RechunkingInvariance ==
    []((finished /\ inner = "Utf8") =>
          SameTextAndErrors(sink, Utf8FromIter(<<fed>>, <<>>, <<>>)))

\* "x", then a three-byte sequence broken by FF after its second byte, fed
\* with a cut inside the broken sequence and a cut before FF: two errors
\* and "x" followed by two replacement characters, as in one chunk.
C19_Witness ==
    /\ finished /\ kind = "Utf8LossyDecoder"
    /\ fed = <<120, 239, 191, 255>> /\ cuts = {2, 3, 4}
    /\ ErrorCount(sink) = 2
    /\ ConcatText(sink)
          = (<<120>> \o REPLACEMENT_CHARACTER) \o REPLACEMENT_CHARACTER

(* ------------------------------- C20 ---------------------------------- *)

\* C20: no empty text chunk is ever pushed.  Every sink.process call either
\* decoder makes, from process or from finish, carries a chunk of length
\* greater than 0.
C20_NoEmptyChunk ==
    \A i \in 1..Len(sink) : IsPush(sink[i]) => Len(sink[i].text) > 0

\* A windows-949 stream of "(" and a lead byte, whose second chunk is the
\* lead byte alone: process pushes "(", the second call pushes nothing, and
\* finish pushes the replacement character.
C20_Witness ==
    /\ finished /\ encoding = "windows-949"
    /\ fed = <<40, 190>> /\ cuts = {1, 2}
    /\ sink = <<SinkProcess(<<40>>, "out"),
                SinkError("incomplete sequence", "decoder"),
                SinkProcess(REPLACEMENT_CHARACTER, "out"),
                SinkFinish>>

====
